---- MODULE Spec2Model ----
(***************************************************************************)
(* Model of juniper_codegen's #[derive(GraphQLInputObject)] generator,     *)
(* juniper_codegen/src/derive_input_object.rs.                             *)
(*                                                                         *)
(* Strings are sequences of one-character strings, so that the name        *)
(* grammar and the camel-case conversion work on characters.  An           *)
(* Option<T> is a sequence of length at most one: <<>> is None and <<v>>   *)
(* is Some(v).                                                             *)
(***************************************************************************)
EXTENDS Integers, Sequences, FiniteSets, TLC

\* ------------------------------------------------------------------ bounds

\* The largest number of declared fields of the source type.
MaxFields == 2
\* The largest number of attributes (doc comments and items of #[graphql(..)]
\* groups) written on the type and its fields together.
MaxAttrs == 2

\* -------------------------------------------------------- strings, literals

None == <<>>
Some(v) == <<v>>

S_x == <<"x">>
S_1bad == <<"1", "b", "a", "d">>
S_has_space == <<"h", "a", "s", " ", "s", "p", "a", "c", "e">>
S_attr == <<"a", "t", "t", "r">>
S_doc == <<"d", "o", "c">>
S_Obj == <<"O", "b", "j">>
S_a_b == <<"a", "_", "b">>
S_aB == <<"a", "B">>
S_first_name == <<"f", "i", "r", "s", "t", "_", "n", "a", "m", "e">>
S_firstName == <<"f", "i", "r", "s", "t", "N", "a", "m", "e">>
S_5plus5 == <<"5", "+", "5">>
S_5plus == <<"5", " ", "+">>

LowerChars == {"a", "b", "c", "d", "e", "f", "h", "i", "m", "n", "o", "p", "r", "s", "t", "x"}
UpperChars == {"B", "N", "O"}
DigitChars == {"1", "5"}

\* ------------------------------------------------------------ util (callee)

\* util::is_valid_name: ^[_a-zA-Z][_a-zA-Z0-9]*$
is_valid_name(s) ==
    /\ Len(s) >= 1
    /\ s[1] \in LowerChars \cup UpperChars \cup {"_"}
    /\ \A k \in 2..Len(s) : s[k] \in LowerChars \cup UpperChars \cup DigitChars \cup {"_"}

to_uppercase(c) ==
    CASE c = "b" -> "B"
      [] c = "n" -> "N"
      [] c = "o" -> "O"
      [] OTHER -> c

\* The parts of s between underscores, parts[1] being the text before the first.
RECURSIVE split_underscore(_, _, _)
split_underscore(s, k, parts) ==
    IF k > Len(s) THEN parts
    ELSE IF s[k] = "_" THEN split_underscore(s, k + 1, Append(parts, <<>>))
    ELSE split_underscore(s, k + 1,
             [parts EXCEPT ![Len(parts)] = Append(parts[Len(parts)], s[k])])

RECURSIVE camel_join(_, _, _)
camel_join(parts, k, dest) ==
    IF k > Len(parts) THEN dest
    ELSE IF k = 1 THEN camel_join(parts, 2, dest \o parts[1])
    ELSE IF Len(parts[k]) = 0 THEN camel_join(parts, k + 1, dest)
    ELSE camel_join(parts, k + 1,
             dest \o <<to_uppercase(parts[k][1])>> \o SubSeq(parts[k], 2, Len(parts[k])))

\* util::to_camel_case: snake_case to lowerCamelCase.
to_camel_case(s) == camel_join(split_underscore(s, 1, <<<<>>>>), 1, <<>>)

\* util::get_doc_comment: the text of the doc comment among attrs, if any.
get_doc_comment(attrs) ==
    LET docs == SelectSeq(attrs, LAMBDA a : a.kind = "doc")
    IN  IF Len(docs) = 0 THEN None ELSE Some(docs[1].text)

\* util::get_graphql_attr: the items of the #[graphql(..)] group, if any.
get_graphql_attr(attrs) ==
    LET gs == SelectSeq(attrs, LAMBDA a : a.kind = "graphql")
    IN  IF Len(gs) = 0 THEN None ELSE Some(gs[1].nested)

\* util::keyed_item_value: fatal when the key matches and the value kind
\* disagrees with the validation; the typed value when it matches; else None.
keyed_item_value(item, key, validation) ==
    IF item.ident # key THEN [fatal |-> FALSE, value |-> None]
    ELSE IF item.meta = "NameValue"
         THEN [fatal |-> FALSE, value |-> Some([kind |-> "String", s |-> item.lit])]
    ELSE IF validation = "String" THEN [fatal |-> TRUE, value |-> None]
    ELSE [fatal |-> FALSE, value |-> Some([kind |-> "Bare", s |-> <<>>])]

IsStringValue(r) == Len(r.value) = 1 /\ r.value[1].kind = "String"

\* ------------------------------------------------- proc_macro / syn (callee)

\* TokenStream::from_str: the tokens of a source string (whitespace dropped).
TokenStream_from_str(def) == SelectSeq(def, LAMBDA c : c # " ")

IsLiteralToken(t) == t \in DigitChars
IsOperatorToken(t) == t = "+"

\* syn::parse::<syn::Expr>: literal (operator literal)*; Ok carries the tokens.
syn_parse_Expr(t) ==
    IF /\ Len(t) % 2 = 1
       /\ \A k \in 1..Len(t) :
              IF k % 2 = 1 THEN IsLiteralToken(t[k]) ELSE IsOperatorToken(t[k])
    THEN [ok |-> TRUE, tokens |-> t]
    ELSE [ok |-> FALSE, tokens |-> <<>>]

\* quote! { Default::default() }
DefaultDefaultTokens == <<"Default::default()">>

\* ---------------------------------------------------------------- ObjAttrs

ObjAttrs_default == [name |-> None, description |-> None, internal |-> FALSE]

\* One iteration of the loop over the items of the structure's group:
\* the updated attributes, or the panic that ends the run.
ObjAttrs_item(res, item) ==
    LET nm == keyed_item_value(item, "name", "String")
        ds == keyed_item_value(item, "description", "String")
    IN  IF nm.fatal THEN [panic |-> "InvalidFormat", res |-> res]
        ELSE IF IsStringValue(nm)
             THEN IF is_valid_name(nm.value[1].s)
                  THEN [panic |-> "", res |-> [res EXCEPT !.name = Some(nm.value[1].s)]]
                  ELSE [panic |-> "InvalidName", res |-> res]
        ELSE IF ds.fatal THEN [panic |-> "InvalidFormat", res |-> res]
        ELSE IF IsStringValue(ds)
             THEN [panic |-> "", res |-> [res EXCEPT !.description = Some(ds.value[1].s)]]
        ELSE IF item.meta = "Word" /\ item.ident = "_internal"
             THEN [panic |-> "", res |-> [res EXCEPT !.internal = TRUE]]
        ELSE [panic |-> "UnknownAttribute", res |-> res]

RECURSIVE ObjAttrs_items(_, _, _)
ObjAttrs_items(res, items, k) ==
    IF k > Len(items) THEN [panic |-> "", res |-> res]
    ELSE LET r == ObjAttrs_item(res, items[k])
         IN  IF r.panic # "" THEN r ELSE ObjAttrs_items(r.res, items, k + 1)

\* ObjAttrs::from_input, were the doc comment read after the items.
ObjAttrs_from_input_doc_last(input) ==
    LET doc == get_doc_comment(input.attrs)
        items == get_graphql_attr(input.attrs)
        r == IF Len(items) = 0 THEN [panic |-> "", res |-> ObjAttrs_default]
             ELSE ObjAttrs_items(ObjAttrs_default, items[1], 1)
    IN  IF r.panic = "" /\ Len(doc) = 1
        THEN [panic |-> "", res |-> [r.res EXCEPT !.description = doc]]
        ELSE r

\* ObjAttrs::from_input
ObjAttrs_from_input(input) ==
    LET seeded == [ObjAttrs_default EXCEPT !.description = get_doc_comment(input.attrs)]
        items == get_graphql_attr(input.attrs)
    IN  IF Len(items) = 0 THEN [panic |-> "", res |-> seeded]
        ELSE ObjAttrs_items(seeded, items[1], 1)

\* ----------------------------------------------------------- ObjFieldAttrs

ObjFieldAttrs_default ==
    [name |-> None, description |-> None, default |-> FALSE, default_expr |-> None]

\* ObjFieldAttrs_item, were an unrecognised item skipped instead of a panic.
ObjFieldAttrs_item_lenient(res, item) ==
    LET nm == keyed_item_value(item, "name", "String")
        ds == keyed_item_value(item, "description", "String")
        df == keyed_item_value(item, "default", "Any")
    IN  IF nm.fatal THEN [panic |-> "InvalidFormat", res |-> res]
        ELSE IF IsStringValue(nm)
             THEN IF is_valid_name(nm.value[1].s)
                  THEN [panic |-> "", res |-> [res EXCEPT !.name = Some(nm.value[1].s)]]
                  ELSE [panic |-> "InvalidName", res |-> res]
        ELSE IF ds.fatal THEN [panic |-> "InvalidFormat", res |-> res]
        ELSE IF IsStringValue(ds)
             THEN [panic |-> "", res |-> [res EXCEPT !.description = Some(ds.value[1].s)]]
        ELSE IF df.fatal THEN [panic |-> "InvalidFormat", res |-> res]
        ELSE IF IsStringValue(df)
             THEN [panic |-> "", res |-> [res EXCEPT !.default_expr = Some(df.value[1].s)]]
        ELSE IF item.meta = "Word" /\ item.ident = "default"
             THEN [panic |-> "", res |-> [res EXCEPT !.default = TRUE]]
        ELSE [panic |-> "", res |-> res]

\* One iteration of the loop over the items of a field's group.
ObjFieldAttrs_item(res, item) ==
    LET nm == keyed_item_value(item, "name", "String")
        ds == keyed_item_value(item, "description", "String")
        df == keyed_item_value(item, "default", "Any")
    IN  IF nm.fatal THEN [panic |-> "InvalidFormat", res |-> res]
        ELSE IF IsStringValue(nm)
             THEN IF is_valid_name(nm.value[1].s)
                  THEN [panic |-> "", res |-> [res EXCEPT !.name = Some(nm.value[1].s)]]
                  ELSE [panic |-> "InvalidName", res |-> res]
        ELSE IF ds.fatal THEN [panic |-> "InvalidFormat", res |-> res]
        ELSE IF IsStringValue(ds)
             THEN [panic |-> "", res |-> [res EXCEPT !.description = Some(ds.value[1].s)]]
        ELSE IF df.fatal THEN [panic |-> "InvalidFormat", res |-> res]
        ELSE IF IsStringValue(df)
             THEN [panic |-> "", res |-> [res EXCEPT !.default_expr = Some(df.value[1].s)]]
        ELSE IF item.meta = "Word" /\ item.ident = "default"
             THEN [panic |-> "", res |-> [res EXCEPT !.default = TRUE]]
        ELSE [panic |-> "UnknownAttribute", res |-> res]

RECURSIVE ObjFieldAttrs_items(_, _, _)
ObjFieldAttrs_items(res, items, k) ==
    IF k > Len(items) THEN [panic |-> "", res |-> res]
    ELSE LET r == ObjFieldAttrs_item(res, items[k])
         IN  IF r.panic # "" THEN r ELSE ObjFieldAttrs_items(r.res, items, k + 1)

\* ObjFieldAttrs::from_input
ObjFieldAttrs_from_input(variant) ==
    LET seeded == [ObjFieldAttrs_default EXCEPT
                       !.description = get_doc_comment(variant.attrs)]
        items == get_graphql_attr(variant.attrs)
    IN  IF Len(items) = 0 THEN [panic |-> "", res |-> seeded]
        ELSE ObjFieldAttrs_items(seeded, items[1], 1)

\* ------------------------------------------- impl_input_object, per field

\* field_name, were the override never looked at.
field_name_no_override(field_attrs, field_ident) == to_camel_case(field_ident)

\* let name = match field_attrs.name { .. }
field_name(field_attrs, field_ident) ==
    IF Len(field_attrs.name) = 1 THEN field_attrs.name[1]
    ELSE to_camel_case(field_ident)

\* let field_description = match field_attrs.description { .. }
field_description(field_attrs) == field_attrs.description

\* field_default, were the expression looked at before the flag.
field_default_expr_first(field_attrs) ==
    IF Len(field_attrs.default_expr) = 1
    THEN LET e == syn_parse_Expr(TokenStream_from_str(field_attrs.default_expr[1]))
         IN  IF e.ok THEN [panic |-> "", tokens |-> Some(e.tokens)]
             ELSE [panic |-> "MalformedDefault", tokens |-> None]
    ELSE IF field_attrs.default
         THEN [panic |-> "", tokens |-> Some(DefaultDefaultTokens)]
    ELSE [panic |-> "", tokens |-> None]

\* let default = { .. }: the tokens of the default value, or the panic.
field_default(field_attrs) ==
    IF field_attrs.default
    THEN [panic |-> "", tokens |-> Some(DefaultDefaultTokens)]
    ELSE IF Len(field_attrs.default_expr) = 1
         THEN LET e == syn_parse_Expr(TokenStream_from_str(field_attrs.default_expr[1]))
              IN  IF e.ok THEN [panic |-> "", tokens |-> Some(e.tokens)]
                  ELSE [panic |-> "MalformedDefault", tokens |-> None]
    ELSE [panic |-> "", tokens |-> None]

\* The fragment pushed to meta_fields: registry.arg / registry.arg_with_default.
meta_field_fragment(field, name, default, description) ==
    [name |-> name, ty |-> field.ty, default |-> default, description |-> description]

\* The fragment pushed to from_inputs: #field_ident: { match obj.get(#name) {..} }
from_input_fragment(field, name, default) ==
    [field_ident |-> field.ident, name |-> name, default |-> default]

\* to_input_fragment, were it to skip the name override.
to_input_fragment_camel(field, name) ==
    [name |-> to_camel_case(field.ident), field_ident |-> field.ident]

\* The fragment pushed to to_inputs: (#name, self.#field_ident.to_input_value())
to_input_fragment(field, name) ==
    [name |-> name, field_ident |-> field.ident]

\* One iteration of `for field in fields`: the three fragments, or the panic.
field_iteration(field) ==
    LET fa == ObjFieldAttrs_from_input(field)
        name == field_name(fa.res, field.ident)
        def == field_default(fa.res)
    IN  IF fa.panic # "" THEN [panic |-> fa.panic, frags |-> <<>>]
        ELSE IF def.panic # "" THEN [panic |-> def.panic, frags |-> <<>>]
        ELSE [panic |-> "",
              frags |-> << [meta |-> meta_field_fragment(field, name, def.tokens,
                                         field_description(fa.res)),
                            from |-> from_input_fragment(field, name, def.tokens),
                            to |-> to_input_fragment(field, name)] >>]

\* ---------------------------------------------- impl_input_object, assembly

\* schema_name, were the override dropped in internal mode.
schema_name_internal(attrs, ident) ==
    IF Len(attrs.name) = 1 /\ ~attrs.internal THEN attrs.name[1] ELSE ident

\* let name = attrs.name.unwrap_or(ast.ident.to_string())
schema_name(attrs, ident) == IF Len(attrs.name) = 1 THEN attrs.name[1] ELSE ident

\* let meta_description = match attrs.description { .. }
meta_description_of(attrs) == attrs.description

\* let body = quote! { .. }
body_of(ident, generics, name, meta_descr, metas, froms, tos) ==
    [ident |-> ident, generics |-> generics, name |-> name,
     meta_description |-> meta_descr,
     meta_fields |-> metas, from_inputs |-> froms, to_inputs |-> tos]

\* let dummy_const = Ident::new(&format!("_IMPL_GRAPHQLINPUTOBJECT_FOR_{}", ident), ..)
dummy_const_of(ident) ==
    <<"_", "I", "M", "P", "L", "_", "G", "R", "A", "P", "H", "Q", "L",
      "I", "N", "P", "U", "T", "O", "B", "J", "E", "C", "T", "_", "F", "O", "R", "_">>
    \o ident

\* let crate_reference = if attrs.internal { .. } else { .. }
crate_reference_of(attrs) ==
    IF attrs.internal THEN "mod _juniper { pub use ::{..}; }"
    ELSE "extern crate juniper as _juniper;"

\* let generated = quote! { const #dummy_const : () = { #crate_reference #body }; }
generated_of(dummy, crate_ref, body) ==
    [dummy_const |-> dummy, crate_reference |-> crate_ref, body |-> body]

\* ------------------------------------------ juniper::InputValue (callee)

InputValue_null == [kind |-> "Null", int |-> 0, entries |-> <<>>]
InputValue_int(n) == [kind |-> "Int", int |-> n, entries |-> <<>>]

\* Inserting into the map a .collect() builds: a key already there keeps its
\* place and takes the new value.
map_insert(map, key, v) ==
    IF \E k \in 1..Len(map) : map[k][1] = key
    THEN [k \in 1..Len(map) |-> IF map[k][1] = key THEN <<key, v>> ELSE map[k]]
    ELSE Append(map, <<key, v>>)

RECURSIVE collect(_, _, _)
collect(pairs, k, map) ==
    IF k > Len(pairs) THEN map
    ELSE collect(pairs, k + 1, map_insert(map, pairs[k][1], pairs[k][2]))

\* InputValue::object
InputValue_object(map) == [kind |-> "Object", int |-> 0, entries |-> map]

\* InputValue::to_object_value
to_object_value(v) ==
    IF v.kind = "Object" THEN Some(collect(v.entries, 1, <<>>)) ELSE None

\* obj.get(name)
map_get(obj, name) ==
    LET hits == SelectSeq(obj, LAMBDA e : e[1] = name)
    IN  IF Len(hits) = 0 THEN None ELSE Some(hits[1][2])

\* <i32 as ToInputValue>::to_input_value
i32_to_input_value(n) == InputValue_int(n)

\* <i32 as FromInputValue>::from_input_value
i32_from_input_value(v) == IF v.kind = "Int" THEN Some(v.int) ELSE None

\* ----------------------------------------------------- the emitted methods

\* self.#field_ident
struct_field(selfv, field_ident) ==
    LET hits == SelectSeq(selfv, LAMBDA e : e[1] = field_ident)
    IN  hits[1][2]

RECURSIVE eval_sum(_, _)
eval_sum(tokens, k) ==
    IF k > Len(tokens) THEN 0
    ELSE (IF tokens[k] = "5" THEN 5 ELSE IF tokens[k] = "1" THEN 1 ELSE 0)
         + eval_sum(tokens, k + 1)

\* The value of the emitted #def: i32::default() or the expression.
eval_default(tokens) ==
    IF tokens = DefaultDefaultTokens THEN 0 ELSE eval_sum(tokens, 1)

\* Lines 279-285: the emitted to_input_value.
emitted_to_input_value(gen, selfv) ==
    InputValue_object(collect(
        [k \in 1..Len(gen.body.to_inputs) |->
            << gen.body.to_inputs[k].name,
               i32_to_input_value(struct_field(selfv, gen.body.to_inputs[k].field_ident)) >>],
        1, <<>>))

\* emitted_field_match, were the default taken for an absent key only.
emitted_field_match_absent_only(frag, obj) ==
    LET found == map_get(obj, frag.name)
        unwrap(o) == IF Len(o) = 1 THEN [ok |-> TRUE, v |-> o[1]]
                     ELSE [ok |-> FALSE, v |-> 0]
    IN  IF Len(frag.default) = 1 /\ Len(found) = 0
        THEN [ok |-> TRUE, v |-> eval_default(frag.default[1])]
        ELSE IF Len(found) = 1 THEN unwrap(i32_from_input_value(found[1]))
        ELSE unwrap(i32_from_input_value(InputValue_null))

\* Lines 226-233: the emitted match for one field; ok is FALSE when unwrap panics.
emitted_field_match(frag, obj) ==
    LET found == map_get(obj, frag.name)
        unwrap(o) == IF Len(o) = 1 THEN [ok |-> TRUE, v |-> o[1]]
                     ELSE [ok |-> FALSE, v |-> 0]
    IN  IF /\ Len(frag.default) = 1
           /\ (Len(found) = 0 \/ found[1].kind = "Null")
        THEN [ok |-> TRUE, v |-> eval_default(frag.default[1])]
        ELSE IF Len(found) = 1 THEN unwrap(i32_from_input_value(found[1]))
        ELSE unwrap(i32_from_input_value(InputValue_null))

\* The fields of the struct literal, evaluated in order up to the first panic.
RECURSIVE emitted_struct_literal(_, _, _, _)
emitted_struct_literal(frags, obj, k, acc) ==
    IF k > Len(frags) THEN [status |-> "Some", fields |-> acc]
    ELSE LET r == emitted_field_match(frags[k], obj)
         IN  IF r.ok
             THEN emitted_struct_literal(frags, obj, k + 1,
                      Append(acc, <<frags[k].field_ident, r.v>>))
             ELSE [status |-> "panic", fields |-> acc]

\* Lines 265-277: the emitted from_input_value.
emitted_from_input_value(gen, v) ==
    LET obj == to_object_value(v)
    IN  IF Len(obj) = 1
        THEN emitted_struct_literal(gen.body.from_inputs, obj[1], 1, <<>>)
        ELSE [status |-> "None", fields |-> <<>>]

\* ------------------------------------------- impl_input_object, as a whole

\* named_fields, were the fields of a tuple struct taken too.
named_fields_any_struct(input) ==
    IF input.data.kind = "Struct" /\ input.data.fields_kind \in {"Named", "Unnamed"}
    THEN [panic |-> "", fields |-> input.data.fields]
    ELSE [panic |-> "Shape", fields |-> <<>>]

\* let fields = match ast.data { .. }: the named fields, or the shape panic.
named_fields(input) ==
    IF input.data.kind = "Struct" /\ input.data.fields_kind = "Named"
    THEN [panic |-> "", fields |-> input.data.fields]
    ELSE [panic |-> "Shape", fields |-> <<>>]

RECURSIVE field_loop(_, _, _)
field_loop(fs, k, acc) ==
    IF k > Len(fs) THEN [panic |-> "", frags |-> acc]
    ELSE LET r == field_iteration(fs[k])
         IN  IF r.panic # "" THEN [panic |-> r.panic, frags |-> <<>>]
             ELSE field_loop(fs, k + 1, acc \o r.frags)

\* The result of one run: the generated item, or the panic that ended it.
impl_input_object(input) ==
    LET nf == named_fields(input)
        at == ObjAttrs_from_input(input)
        lp == field_loop(nf.fields, 1, <<>>)
    IN  IF nf.panic # "" THEN [panic |-> nf.panic, generated |-> None]
        ELSE IF at.panic # "" THEN [panic |-> at.panic, generated |-> None]
        ELSE IF lp.panic # "" THEN [panic |-> lp.panic, generated |-> None]
        ELSE [panic |-> "",
              generated |-> Some(generated_of(
                  dummy_const_of(input.ident),
                  crate_reference_of(at.res),
                  body_of(input.ident, input.generics,
                          schema_name(at.res, input.ident),
                          meta_description_of(at.res),
                          [k \in 1..Len(lp.frags) |-> lp.frags[k].meta],
                          [k \in 1..Len(lp.frags) |-> lp.frags[k].from],
                          [k \in 1..Len(lp.frags) |-> lp.frags[k].to])))]

\* ------------------------------------------------------------------ inputs

NameValue(ident, lit) == [meta |-> "NameValue", ident |-> ident, lit |-> lit]
Word(ident) == [meta |-> "Word", ident |-> ident, lit |-> <<>>]
DocLine == [meta |-> "Doc", ident |-> "doc", lit |-> S_doc]

\* The items a #[graphql(..)] group is written with.
Items ==
    { NameValue("name", S_x), NameValue("name", S_1bad),
      NameValue("name", S_has_space), NameValue("description", S_attr),
      NameValue("default", S_5plus5), NameValue("default", S_5plus),
      NameValue("unknown", S_x),
      Word("default"), Word("_internal"), Word("name") }

DocAttr == [kind |-> "doc", text |-> S_doc, nested |-> <<>>]
GraphqlAttr(items) == [kind |-> "graphql", text |-> <<>>, nested |-> items]

\* The attribute list of target t (0 the type, k its k-th field) when the
\* attributes are written in the order of `flat`, a sequence of <<target, what>>.
AttrsOf(flat, t) ==
    LET sub == SelectSeq(flat, LAMBDA e : e[1] = t)
        its == SelectSeq(sub, LAMBDA e : e[2].meta # "Doc")
        items == [k \in 1..Len(its) |-> its[k][2]]
        hasDoc == \E k \in 1..Len(sub) : sub[k][2].meta = "Doc"
    IN  IF Len(its) = 0 THEN (IF hasDoc THEN <<DocAttr>> ELSE <<>>)
        ELSE IF ~hasDoc THEN <<GraphqlAttr(items)>>
        ELSE IF sub[1][2].meta = "Doc" THEN <<DocAttr, GraphqlAttr(items)>>
        ELSE <<GraphqlAttr(items), DocAttr>>

OneDocEach(flat, n) ==
    \A t \in 0..n : Cardinality({k \in 1..Len(flat) :
                                    flat[k][1] = t /\ flat[k][2].meta = "Doc"}) <= 1

\* The identifiers fields are declared with, in the order of declaration.
FieldIdents == <<S_a_b, S_aB, S_first_name>>

Shapes ==
    { [kind |-> "Struct", fields_kind |-> "Named"],
      [kind |-> "Struct", fields_kind |-> "Unnamed"],
      [kind |-> "Struct", fields_kind |-> "Unit"],
      [kind |-> "Enum", fields_kind |-> ""],
      [kind |-> "Union", fields_kind |-> ""] }

FieldCounts(sh) ==
    IF sh.fields_kind \in {"Named", "Unnamed"} THEN 0..MaxFields ELSE {0}

\* The ways to pick n distinct identifiers, kept in the order of FieldIdents.
IdentChoices(sh, n) ==
    IF sh.fields_kind = "Named"
    THEN { f \in [1..n -> 1..Len(FieldIdents)] : \A a \in 1..n - 1 : f[a] < f[a + 1] }
    ELSE { [k \in 1..n |-> 1] }

\* The ways to write at most MaxAttrs attributes on a type with n fields,
\* listed target by target.
AttrLists(n) ==
    { f \in UNION { [1..m -> (0..n) \X (Items \cup {DocLine})] : m \in 0..MaxAttrs } :
        /\ \A k \in 1..Len(f) - 1 : f[k][1] <= f[k + 1][1]
        /\ OneDocEach(f, n) }

\* The declaration with shape sh, the fields ids and the attributes flat.
DeriveInput(sh, n, ids, flat) ==
    [ident |-> S_Obj, generics |-> <<>>, attrs |-> AttrsOf(flat, 0),
     data |-> [kind |-> sh.kind, fields_kind |-> sh.fields_kind,
               fields |-> [k \in 1..n |->
                   [ident |-> IF sh.fields_kind = "Named" THEN FieldIdents[ids[k]]
                              ELSE <<>>,
                    ty |-> "i32", attrs |-> AttrsOf(flat, k)]]]]

\* ------------------------------------------------------------------- state

VARIABLES
    ast,            \* the DeriveInput the run is given
    pc,             \* where the run stands
    fields,         \* let fields
    attrs,          \* let attrs (None until resolved)
    meta_fields,    \* let mut meta_fields
    from_inputs,    \* let mut from_inputs
    to_inputs,      \* let mut to_inputs
    generated,      \* the returned TokenStream (None until returned)
    panic,          \* the panic that ended the run ("" when none)
    self_value,     \* the value the emitted to_input_value is called on (None: not called)
    input_value,    \* the InputValue handed to the emitted from_input_value
    item            \* what the emitted from_input_value returned

gen_vars == <<ast, fields, attrs, meta_fields, from_inputs, to_inputs, generated, panic>>
run_vars == <<self_value, input_value, item>>
vars == <<ast, pc, fields, attrs, meta_fields, from_inputs, to_inputs, generated, panic,
          self_value, input_value, item>>

Init ==
    /\ \E sh \in Shapes : \E n \in FieldCounts(sh) :
       \E ids \in IdentChoices(sh, n) : \E flat \in AttrLists(n) :
           ast = DeriveInput(sh, n, ids, flat)
    /\ pc = "shape"
    /\ fields = <<>>
    /\ attrs = None
    /\ meta_fields = <<>>
    /\ from_inputs = <<>>
    /\ to_inputs = <<>>
    /\ generated = None
    /\ panic = ""
    /\ self_value = None
    /\ input_value = None
    /\ item = [status |-> "", fields |-> <<>>]

Abort(msg) ==
    /\ pc' = "panicked"
    /\ panic' = msg

\* Lines 117-129: the match on ast.data.
MatchData ==
    /\ pc = "shape"
    /\ LET nf == named_fields(ast)
       IN  \/ /\ nf.panic = ""
              /\ fields' = nf.fields
              /\ pc' = "attrs"
              /\ UNCHANGED panic
           \/ /\ nf.panic # ""
              /\ Abort(nf.panic)
              /\ UNCHANGED fields
    /\ UNCHANGED <<ast, attrs, meta_fields, from_inputs, to_inputs, generated, run_vars>>

\* Line 133: let attrs = ObjAttrs::from_input(ast).
ParseAttrs ==
    /\ pc = "attrs"
    /\ LET at == ObjAttrs_from_input(ast)
       IN  \/ /\ at.panic = ""
              /\ attrs' = Some(at.res)
              /\ pc' = "fields"
              /\ UNCHANGED panic
           \/ /\ at.panic # ""
              /\ Abort(at.panic)
              /\ UNCHANGED attrs
    /\ UNCHANGED <<ast, fields, meta_fields, from_inputs, to_inputs, generated, run_vars>>

\* Lines 146-241: one iteration of the loop over the fields.
FieldIteration ==
    /\ pc = "fields"
    /\ Len(meta_fields) < Len(fields)
    /\ LET r == field_iteration(fields[Len(meta_fields) + 1])
       IN  \/ /\ r.panic = ""
              /\ meta_fields' = Append(meta_fields, r.frags[1].meta)
              /\ from_inputs' = Append(from_inputs, r.frags[1].from)
              /\ to_inputs' = Append(to_inputs, r.frags[1].to)
              /\ UNCHANGED <<pc, panic>>
           \/ /\ r.panic # ""
              /\ Abort(r.panic)
              /\ UNCHANGED <<meta_fields, from_inputs, to_inputs>>
    /\ UNCHANGED <<ast, fields, attrs, generated, run_vars>>

\* Lines 243-323: the body, the wrapper and the return.
Generate ==
    /\ pc = "fields"
    /\ Len(meta_fields) = Len(fields)
    /\ generated' = Some(generated_of(
           dummy_const_of(ast.ident),
           crate_reference_of(attrs[1]),
           body_of(ast.ident, ast.generics, schema_name(attrs[1], ast.ident),
                   meta_description_of(attrs[1]),
                   meta_fields, from_inputs, to_inputs)))
    /\ pc' = "done"
    /\ UNCHANGED <<ast, fields, attrs, meta_fields, from_inputs, to_inputs, panic, run_vars>>

\* The values a field of type i32 holds in the values serialized.
FieldValues == {1, 2}

\* The values of the struct: one value per declared field.
StructValues ==
    { [k \in 1..Len(fields) |-> <<fields[k].ident, f[k]>>] :
        f \in [1..Len(fields) -> FieldValues] }

\* The exposed names the emitted code looks up.
ExposedNames == { from_inputs[k].name : k \in 1..Len(from_inputs) }

RECURSIVE SeqOfSet(_)
SeqOfSet(S) ==
    IF S = {} THEN <<>> ELSE LET x == CHOOSE y \in S : TRUE IN <<x>> \o SeqOfSet(S \ {x})

\* The InputValues a caller hands in: a null, and the objects that give each
\* exposed name no entry, a null or an integer.
SuppliedValues ==
    LET names == SeqOfSet(ExposedNames)
        entry(k, c) == IF c = "null" THEN << <<names[k], InputValue_null>> >>
                       ELSE IF c = "int" THEN << <<names[k], InputValue_int(7)>> >>
                       ELSE <<>>
        RECURSIVE entries(_, _)
        entries(c, k) == IF k > Len(names) THEN <<>>
                         ELSE entry(k, c[k]) \o entries(c, k + 1)
    IN  {InputValue_null} \cup
        { InputValue_object(entries(c, 1)) :
            c \in [1..Len(names) -> {"absent", "null", "int"}] }

\* A caller serializes a value of the struct with the emitted to_input_value.
ToInputValue ==
    /\ pc = "done"
    /\ \E v \in StructValues :
           /\ self_value' = Some(v)
           /\ input_value' = Some(emitted_to_input_value(generated[1], v))
    /\ pc' = "serialized"
    /\ UNCHANGED <<gen_vars, item>>

\* A caller hands an InputValue of its own to the emitted from_input_value.
SupplyValue ==
    /\ pc = "done"
    /\ \E v \in SuppliedValues : input_value' = Some(v)
    /\ pc' = "supplied"
    /\ UNCHANGED <<gen_vars, self_value, item>>

\* The emitted from_input_value runs on the InputValue.
FromInputValue ==
    /\ pc \in {"serialized", "supplied"}
    /\ item' = emitted_from_input_value(generated[1], input_value[1])
    /\ pc' = "deserialized"
    /\ UNCHANGED <<gen_vars, self_value, input_value>>

Next ==
    \/ MatchData
    \/ ParseAttrs
    \/ FieldIteration
    \/ Generate
    \/ ToInputValue
    \/ SupplyValue
    \/ FromInputValue

Spec == Init /\ [][Next]_vars

\* The stepwise run and the run as a whole agree.
RunAgrees ==
    /\ pc \in {"done", "serialized", "supplied", "deserialized"} =>
           impl_input_object(ast) = [panic |-> "", generated |-> generated]
    /\ pc = "panicked" => impl_input_object(ast) = [panic |-> panic, generated |-> None]

\* ---------------------------------------------------- what the claims read

Succeeded == pc \in {"done", "serialized", "supplied", "deserialized"}
Finished == Succeeded \/ pc = "panicked"

NamedShape == ast.data.kind = "Struct" /\ ast.data.fields_kind = "Named"
DeclaredFields == ast.data.fields
Output == generated[1].body

\* The items of the annotation group written in the attribute list a.
ItemsOn(a) ==
    LET gs == {k \in 1..Len(a) : a[k].kind = "graphql"}
    IN  IF gs = {} THEN <<>> ELSE a[CHOOSE k \in gs : TRUE].nested

\* The text of the doc comment written in the attribute list a, if any.
DocOn(a) ==
    LET ds == {k \in 1..Len(a) : a[k].kind = "doc"}
    IN  IF ds = {} THEN None ELSE Some(a[CHOOSE k \in ds : TRUE].text)

\* The string of the last item `key = "<string>"` among items, if any.
LastString(items, key) ==
    LET ks == {k \in 1..Len(items) : items[k].meta = "NameValue" /\ items[k].ident = key}
    IN  IF ks = {} THEN None ELSE Some(items[CHOOSE k \in ks : \A j \in ks : j <= k].lit)

HasFlag(items, flag) ==
    \E k \in 1..Len(items) : items[k].meta = "Word" /\ items[k].ident = flag

\* ^[_a-zA-Z][_a-zA-Z0-9]*$
MatchesNameGrammar(s) ==
    LET letter(c) == c \in LowerChars \/ c \in UpperChars \/ c = "_"
    IN  /\ s # <<>>
        /\ letter(s[1])
        /\ \A k \in 1..Len(s) : k = 1 \/ letter(s[k]) \/ s[k] \in DigitChars

\* The exposed name the k-th declared field is to have.
ExposedNameOf(k) ==
    LET ov == LastString(ItemsOn(DeclaredFields[k].attrs), "name")
    IN  IF ov # None THEN ov[1] ELSE to_camel_case(DeclaredFields[k].ident)

\* C1: a successful run on a struct with N named fields emits exactly N
\* metadata-registration, N deserialization and N serialization fragments; the
\* i-th of each belongs to the i-th declared field and the three use the same
\* exposed name (a field with a default is serialized like any other).
C1_FragmentsPerField ==
    Succeeded =>
        /\ Len(Output.meta_fields) = Len(DeclaredFields)
        /\ Len(Output.from_inputs) = Len(DeclaredFields)
        /\ Len(Output.to_inputs) = Len(DeclaredFields)
        /\ \A k \in 1..Len(DeclaredFields) :
               /\ Output.from_inputs[k].field_ident = DeclaredFields[k].ident
               /\ Output.to_inputs[k].field_ident = DeclaredFields[k].ident
               /\ Output.meta_fields[k].ty = DeclaredFields[k].ty
               /\ Output.meta_fields[k].name = Output.from_inputs[k].name
               /\ Output.from_inputs[k].name = Output.to_inputs[k].name

\* C1's case: two fields, the first with a name override, the second with a default.
C1_Witness ==
    /\ pc = "done"
    /\ Len(DeclaredFields) = 2
    /\ LastString(ItemsOn(DeclaredFields[1].attrs), "name") # None
    /\ HasFlag(ItemsOn(DeclaredFields[2].attrs), "default")
    /\ Len(Output.to_inputs) = 2

StructItemAccepted(it) ==
    \/ it.meta = "NameValue" /\ it.ident \in {"name", "description"}
    \/ it.meta = "Word" /\ it.ident = "_internal"

FieldItemAccepted(it) ==
    \/ it.meta = "NameValue" /\ it.ident \in {"name", "description", "default"}
    \/ it.meta = "Word" /\ it.ident = "default"

HasRejectedItem ==
    \/ \E j \in 1..Len(ItemsOn(ast.attrs)) : ~StructItemAccepted(ItemsOn(ast.attrs)[j])
    \/ \E k \in 1..Len(DeclaredFields) :
           \E j \in 1..Len(ItemsOn(DeclaredFields[k].attrs)) :
               ~FieldItemAccepted(ItemsOn(DeclaredFields[k].attrs)[j])

\* C2: an item of the structure's group other than name = "..", description = ".."
\* or `_internal`, or an item of a field's group other than name = "..",
\* description = "..", default = ".." or `default`, at any position and on any
\* field, aborts the run: it never returns, and nothing is emitted.
C2_UnknownAttributeRejected ==
    HasRejectedItem =>
        /\ ~Succeeded
        /\ generated = None
        /\ ~(pc = "fields" /\ Len(meta_fields) = Len(fields))
        /\ pc = "panicked" => panic # ""

\* C2's case: the second item of the second field's group is unknown, after the
\* first field's fragments were built; the run panicked on it.
C2_Witness ==
    /\ pc = "panicked"
    /\ panic = "UnknownAttribute"
    /\ Len(meta_fields) = 1
    /\ Len(DeclaredFields) = 2
    /\ Len(ItemsOn(DeclaredFields[2].attrs)) = 2
    /\ FieldItemAccepted(ItemsOn(DeclaredFields[2].attrs)[1])
    /\ ~FieldItemAccepted(ItemsOn(DeclaredFields[2].attrs)[2])
    /\ generated = None

HasInvalidNameOverride ==
    \/ \E j \in 1..Len(ItemsOn(ast.attrs)) :
           LET it == ItemsOn(ast.attrs)[j]
           IN  it.meta = "NameValue" /\ it.ident = "name" /\ ~MatchesNameGrammar(it.lit)
    \/ \E k \in 1..Len(DeclaredFields) :
           \E j \in 1..Len(ItemsOn(DeclaredFields[k].attrs)) :
               LET it == ItemsOn(DeclaredFields[k].attrs)[j]
               IN  it.meta = "NameValue" /\ it.ident = "name" /\ ~MatchesNameGrammar(it.lit)

\* C3: the exposed name of every field is its `name` override verbatim when one
\* is given (and matches the name grammar), and the camel-cased identifier
\* otherwise (first_name gives firstName); an override that fails the grammar, on
\* the struct or on a field, aborts the run with no output.
C3_ExposedName ==
    /\ Succeeded =>
           \A k \in 1..Len(DeclaredFields) :
               /\ Output.meta_fields[k].name = ExposedNameOf(k)
               /\ Output.from_inputs[k].name = ExposedNameOf(k)
               /\ Output.to_inputs[k].name = ExposedNameOf(k)
               /\ MatchesNameGrammar(Output.to_inputs[k].name)
               /\ (/\ DeclaredFields[k].ident = S_first_name
                   /\ LastString(ItemsOn(DeclaredFields[k].attrs), "name") = None)
                      => Output.to_inputs[k].name = S_firstName
    /\ HasInvalidNameOverride =>
           /\ ~Succeeded
           /\ generated = None
           /\ ~(pc = "fields" /\ Len(meta_fields) = Len(fields))

\* C3's case: one field exposed under its override, another under its
\* camel-cased identifier.
C3_Witness ==
    /\ pc = "done"
    /\ \E a, b \in 1..Len(DeclaredFields) :
           /\ LastString(ItemsOn(DeclaredFields[a].attrs), "name") = Some(S_x)
           /\ Output.to_inputs[a].name = S_x
           /\ DeclaredFields[b].ident = S_first_name
           /\ Output.to_inputs[b].name = S_firstName

\* The entry of the object v under the key name, if any.
EntryOf(v, name) ==
    LET ks == {k \in 1..Len(v.entries) : v.entries[k][1] = name}
    IN  IF ks = {} THEN None ELSE Some(v.entries[CHOOSE k \in ks : TRUE][2])

HasDefault(k) ==
    \/ HasFlag(ItemsOn(DeclaredFields[k].attrs), "default")
    \/ LastString(ItemsOn(DeclaredFields[k].attrs), "default") # None

\* The default value of the k-th field: i32's Default value under the flag,
\* the value of the expression "5+5" otherwise.
DefaultValueOf(k) ==
    IF HasFlag(ItemsOn(DeclaredFields[k].attrs), "default") THEN 0 ELSE 10

\* What deserializing the k-th field is to give (ok FALSE: the conversion failed).
ExpectedField(k) ==
    LET found == EntryOf(input_value[1], ExposedNameOf(k))
        convert(v) == LET r == i32_from_input_value(v)
                      IN  IF r = None THEN [ok |-> FALSE, v |-> 0]
                          ELSE [ok |-> TRUE, v |-> r[1]]
    IN  IF HasDefault(k) /\ (found = None \/ found = Some(InputValue_null))
        THEN [ok |-> TRUE, v |-> DefaultValueOf(k)]
        ELSE IF found # None THEN convert(found[1])
        ELSE convert(InputValue_null)

\* C4: on an object-shaped input the emitted fragment of a field gives the
\* default value when the field has a default and its exposed name is absent
\* or maps to null; otherwise the conversion of the value found; otherwise
\* (absent, no default) the conversion of a null.
C4_DeserializationDecision ==
    (pc = "deserialized" /\ input_value[1].kind = "Object") =>
        /\ item.status \in {"Some", "panic"}
        /\ \A k \in 1..Len(item.fields) :
               /\ item.fields[k][1] = DeclaredFields[k].ident
               /\ ExpectedField(k) = [ok |-> TRUE, v |-> item.fields[k][2]]
        /\ item.status = "Some" => Len(item.fields) = Len(DeclaredFields)
        /\ item.status = "panic" =>
               /\ Len(item.fields) < Len(DeclaredFields)
               /\ ~ExpectedField(Len(item.fields) + 1).ok

\* C4's case: a field with default = "5+5" was handed an explicit null and got
\* 10, and a field without a default got the conversion of the value found.
C4_Witness ==
    /\ pc = "deserialized"
    /\ self_value = None
    /\ item.status = "Some"
    /\ \E a, b \in 1..Len(DeclaredFields) :
           /\ LastString(ItemsOn(DeclaredFields[a].attrs), "default") = Some(S_5plus5)
           /\ ~HasFlag(ItemsOn(DeclaredFields[a].attrs), "default")
           /\ EntryOf(input_value[1], ExposedNameOf(a)) = Some(InputValue_null)
           /\ item.fields[a][2] = 10
           /\ ~HasDefault(b)
           /\ EntryOf(input_value[1], ExposedNameOf(b)) = Some(InputValue_int(7))
           /\ item.fields[b][2] = 7

\* C5: serializing a value with the emitted to_input_value and deserializing the
\* result with the emitted from_input_value gives back, for every field lacking
\* a default, the value serialized, for every accepted struct (fields whose
\* exposed names coincide included).
C5_RoundTrip ==
    (pc = "deserialized" /\ self_value # None) =>
        /\ item.status = "Some"
        /\ \A k \in 1..Len(DeclaredFields) :
               ~HasDefault(k) => item.fields[k] = self_value[1][k]

\* The group of field k supplies default = "<string>" and the string (the last
\* one, were several written) is no valid expression.
HasMalformedDefault(k) ==
    LET d == LastString(ItemsOn(DeclaredFields[k].attrs), "default")
    IN  d # None /\ ~syn_parse_Expr(TokenStream_from_str(d[1])).ok

\* C6: a field whose group supplies default = "<string>" with a string that is
\* no valid expression aborts the run and nothing is emitted, whatever else the
\* group holds (the bare `default` flag included).
C6_MalformedDefaultAborts ==
    (NamedShape /\ \E k \in 1..Len(DeclaredFields) : HasMalformedDefault(k)) =>
        /\ ~Succeeded
        /\ generated = None

\* The description the attribute list a is to give.
DescriptionOf(a) ==
    IF LastString(ItemsOn(a), "description") # None
    THEN LastString(ItemsOn(a), "description")
    ELSE DocOn(a)

\* C7: for the struct and for every field the emitted description is the text
\* of the `description` attribute when there is one, wherever it stands; the
\* doc comment's text when there is only a doc comment; none when neither.
C7_DescriptionPrecedence ==
    Succeeded =>
        /\ Output.meta_description = DescriptionOf(ast.attrs)
        /\ \A k \in 1..Len(DeclaredFields) :
               Output.meta_fields[k].description = DescriptionOf(DeclaredFields[k].attrs)

\* C7's case: a doc comment written after the group that holds the description
\* attribute, on the struct; the attribute's text is emitted.
C7_Witness ==
    /\ pc = "done"
    /\ Len(ast.attrs) = 2
    /\ ast.attrs[1].kind = "graphql"
    /\ ast.attrs[2].kind = "doc"
    /\ LastString(ItemsOn(ast.attrs), "description") = Some(S_attr)
    /\ Output.meta_description = Some(S_attr)

InternalFlag == Word("_internal")

\* The attribute list a without the items `_internal` of its group.
WithoutInternal(a) ==
    [k \in 1..Len(a) |->
        IF a[k].kind = "graphql"
        THEN [a[k] EXCEPT !.nested = SelectSeq(a[k].nested, LAMBDA it : it # InternalFlag)]
        ELSE a[k]]

\* The attribute list a with `_internal` put before the j-th item of its group
\* (in a group of its own when a has none).
WithInternal(a, j) ==
    IF \A k \in 1..Len(a) : a[k].kind # "graphql"
    THEN Append(a, GraphqlAttr(<<InternalFlag>>))
    ELSE [k \in 1..Len(a) |->
             IF a[k].kind = "graphql"
             THEN [a[k] EXCEPT !.nested = SubSeq(a[k].nested, 1, j - 1) \o <<InternalFlag>>
                                           \o SubSeq(a[k].nested, j, Len(a[k].nested))]
             ELSE a[k]]

\* The declarations that differ from ast only in the presence of `_internal`.
InternalTwins ==
    IF HasFlag(ItemsOn(ast.attrs), "_internal")
    THEN { [ast EXCEPT !.attrs = WithoutInternal(ast.attrs)] }
    ELSE { [ast EXCEPT !.attrs = WithInternal(ast.attrs, j)] :
             j \in 1..Len(ItemsOn(ast.attrs)) + 1 }

CrateReferenceFor(flag) ==
    IF flag THEN "mod _juniper { pub use ::{..}; }" ELSE "extern crate juniper as _juniper;"

\* C8: a run on a declaration that differs only in the presence of the
\* structure-level `_internal` flag ends the same way and, when both succeed,
\* returns the same wrapper name and the same body (name, description, the
\* three implementations, every fragment); only the crate-reference item
\* differs, the internal re-export with the flag and the extern crate without.
C8_InternalOnlyCrateReference ==
    Finished =>
        \A twin \in InternalTwins :
            LET other == impl_input_object(twin)
            IN  /\ other.panic = panic
                /\ (other.generated = None) <=> (generated = None)
                /\ generated # None =>
                       /\ other.generated[1].body = generated[1].body
                       /\ other.generated[1].dummy_const = generated[1].dummy_const
                       /\ generated[1].crate_reference =
                              CrateReferenceFor(HasFlag(ItemsOn(ast.attrs), "_internal"))
                       /\ other.generated[1].crate_reference =
                              CrateReferenceFor(~HasFlag(ItemsOn(ast.attrs), "_internal"))

\* C8's case: a run with `_internal` and a name override that returned the
\* internal re-export.
C8_Witness ==
    /\ pc = "done"
    /\ HasFlag(ItemsOn(ast.attrs), "_internal")
    /\ LastString(ItemsOn(ast.attrs), "name") = Some(S_x)
    /\ generated[1].crate_reference = CrateReferenceFor(TRUE)
    /\ Len(DeclaredFields) >= 1

\* The group of field k supplies the bare flag and default = "<string>".
BothDefaults(k) ==
    /\ HasFlag(ItemsOn(DeclaredFields[k].attrs), "default")
    /\ LastString(ItemsOn(DeclaredFields[k].attrs), "default") # None

\* The last item of the group with the identifier `default` is the bare flag.
FlagIsLast(k) ==
    LET items == ItemsOn(DeclaredFields[k].attrs)
        ds == {j \in 1..Len(items) : items[j].ident = "default"}
    IN  items[CHOOSE j \in ds : \A i \in ds : i <= j].meta = "Word"

\* C9 as claimed: when a field's group supplies both the bare `default` flag and
\* default = "<expr>", the later of the two decides the default policy in the
\* metadata-registration and the deserialization fragment: the type's Default
\* value when the flag is last, the expression when the expression is last.
C9_LaterDefaultWins ==
    Succeeded =>
        \A k \in 1..Len(DeclaredFields) :
            BothDefaults(k) =>
                LET want == IF FlagIsLast(k) THEN Some(DefaultDefaultTokens)
                            ELSE Some(TokenStream_from_str(
                                     LastString(ItemsOn(DeclaredFields[k].attrs), "default")[1]))
                IN  /\ Output.meta_fields[k].default = want
                    /\ Output.from_inputs[k].default = want

\* C9 as amended: when a field's group supplies both the bare `default` flag and
\* default = "<expr>", the flag decides the default policy whatever the order of
\* the two: both fragments carry the type's Default value.
C9_FlagWins ==
    Succeeded =>
        \A k \in 1..Len(DeclaredFields) :
            BothDefaults(k) =>
                /\ Output.meta_fields[k].default = Some(DefaultDefaultTokens)
                /\ Output.from_inputs[k].default = Some(DefaultDefaultTokens)

\* C9's case: the flag written first and the expression "5+5" after it.
C9_Witness ==
    /\ pc = "done"
    /\ \E k \in 1..Len(DeclaredFields) :
           /\ ItemsOn(DeclaredFields[k].attrs) =
                  <<Word("default"), NameValue("default", S_5plus5)>>
           /\ Output.from_inputs[k].default = Some(DefaultDefaultTokens)

\* The panic resolving the attributes of field f ends in ("" when none): that
\* of its attributes first, that of its default expression after.
FieldFailure(f) ==
    IF ObjFieldAttrs_from_input(f).panic # "" THEN ObjFieldAttrs_from_input(f).panic
    ELSE field_default(ObjFieldAttrs_from_input(f).res).panic

\* C10: a type that is no struct with named fields aborts with the shape error
\* before any attribute of the type or of a field is resolved, whatever its
\* attributes; for a struct with named fields the attributes of the struct are
\* resolved before those of any field and the fields in declaration order, and
\* the panic reported is that of the first step that fails.
C10_ShapeCheckFirst ==
    /\ ~NamedShape =>
           /\ attrs = None /\ meta_fields = <<>> /\ generated = None
           /\ pc \in {"shape", "panicked"}
           /\ pc = "panicked" => panic = "Shape"
    /\ pc = "shape" => attrs = None /\ meta_fields = <<>>
    /\ attrs = None => meta_fields = <<>>
    /\ NamedShape =>
           LET sp == ObjAttrs_from_input(ast).panic
               bad == {k \in 1..Len(DeclaredFields) : FieldFailure(DeclaredFields[k]) # ""}
               first == CHOOSE k \in bad : \A j \in bad : k <= j
           IN  /\ pc = "panicked" =>
                      IF sp # "" THEN panic = sp /\ attrs = None /\ meta_fields = <<>>
                      ELSE /\ bad # {}
                           /\ attrs # None
                           /\ panic = FieldFailure(DeclaredFields[first])
                           /\ Len(meta_fields) = first - 1
               /\ Succeeded => sp = "" /\ bad = {}
               /\ \A k \in 1..Len(meta_fields) :
                      meta_fields[k].name = ExposedNameOf(k)

\* C10's case: a tuple struct with an unknown attribute on the struct and a
\* malformed default on a field; the run panicked with the shape error.
C10_Witness ==
    /\ pc = "panicked"
    /\ panic = "Shape"
    /\ ast.data.fields_kind = "Unnamed"
    /\ ItemsOn(ast.attrs) = <<NameValue("unknown", S_x)>>
    /\ Len(DeclaredFields) >= 1
    /\ ItemsOn(DeclaredFields[1].attrs) = <<NameValue("default", S_5plus)>>

====
